---- MODULE Spec2Model ----
(***************************************************************************)
(* Model of src/main.py: the description generator pipeline                *)
(*   config check -> run(video_path): validate -> transcribe -> trim ->    *)
(*   generate -> save -> report                                            *)
(* together with its two pure helpers, trim_srt and the output path        *)
(* derivation of save_output.                                              *)
(*                                                                         *)
(* Paths are sequences of one-character strings.  Descriptions are         *)
(* sequences of code points, so that the UTF-8 encoding done by the output *)
(* writer can be modelled.  Transcripts and response bodies are strings in *)
(* run-length form, a sequence of runs [c |-> character, n |-> count], so  *)
(* that a transcript longer than the 80000 character budget is a small     *)
(* value; "aab" is <<[c |-> "a", n |-> 2], [c |-> "b", n |-> 1]>>.         *)
(* The build modelled is CPython on a POSIX system (os.sep "/",            *)
(* os.linesep "\n").                                                       *)
(***************************************************************************)
EXTENDS Integers, Sequences, FiniteSets, TLC

VARIABLES
    pc,               \* position of the process / of the function under study
    elevenlabs_key,   \* ELEVENLABS_API_KEY as read from the environment
    anthropic_key,    \* ANTHROPIC_API_KEY as read from the environment
    video_path,       \* argument of run
    video_exists,     \* os.path.exists(video_path)
    fs,               \* content of the files at the possible output paths
    video_handle,     \* the read handle on the video is open
    output_handle,    \* the write handle on the output file is open
    video_opened,     \* the video file has been opened at least once
    stt_calls,        \* requests received by the speech-to-text service
    gen_calls,        \* requests received by the text-generation service
    response,         \* the speech-to-text response
    message,          \* the generation service's answer: text of its first block
    error,            \* the exception that ended the run, if any
    failed_at,        \* the stage the process terminated in, "none" if it did not
    srt_content,      \* local srt_content of run
    description,      \* local description of run
    output_path,      \* path computed by save_output
    printed,          \* the final description printed by run
    exit_status,      \* exit status of the process, -1 while it runs
    stages,           \* stages of the driver started so far, in order
    arg_srt,          \* trim_srt under study: the transcript passed
    arg_max,          \* trim_srt under study: the limit passed
    res_once,         \* trim_srt(arg_srt, arg_max)
    res_twice         \* trim_srt(res_once, arg_max)

vars == <<pc, elevenlabs_key, anthropic_key, video_path, video_exists, fs,
          video_handle, output_handle, video_opened, stt_calls, gen_calls,
          response, message, error, failed_at, srt_content, description,
          output_path, printed, exit_status, stages, arg_srt, arg_max, res_once, res_twice>>

trimVars == <<arg_srt, arg_max, res_once, res_twice>>

----------------------------------------------------------------------------
(* Bounds of the model *)

MaxLen == 3          \* longest transcript handed to trim_srt under study
MaxLimit == 4        \* largest limit handed to trim_srt under study
NegLimit == 2        \* limits go down to -NegLimit
MaxPathLen == 5      \* longest path handed to the output path derivation
MaxDescLen == 2      \* longest description the generation service returns

----------------------------------------------------------------------------
(* Generic helpers *)

Min(a, b) == IF a < b THEN a ELSE b
Max(a, b) == IF a > b THEN a ELSE b

SeqsUpTo(S, n) == UNION {[1..k -> S] : k \in 0..n}

\* len(t) of a string in run-length form
RECURSIVE TextLen(_)
TextLen(t) == IF t = << >> THEN 0 ELSE Head(t).n + TextLen(Tail(t))

\* the string in run-length form of a sequence of characters
RECURSIVE Text(_)
Text(s) ==
    IF s = << >> THEN << >>
    ELSE LET rest == Text(Tail(s))
         IN  IF rest # << >> /\ Head(rest).c = Head(s)
             THEN <<[c |-> Head(s), n |-> Head(rest).n + 1]>> \o Tail(rest)
             ELSE <<[c |-> Head(s), n |-> 1]>> \o rest

\* the first k characters of t, for 0 <= k <= len(t)
RECURSIVE TakeChars(_, _)
TakeChars(t, k) ==
    IF k = 0 \/ t = << >> THEN << >>
    ELSE IF Head(t).n <= k
         THEN <<Head(t)>> \o TakeChars(Tail(t), k - Head(t).n)
         ELSE <<[c |-> Head(t).c, n |-> k]>>

\* Python's t[:m], for m of either sign: a negative m counts from the end
SlicePrefix(t, m) ==
    IF m >= 0 THEN TakeChars(t, Min(m, TextLen(t)))
              ELSE TakeChars(t, Max(TextLen(t) + m, 0))

\* Python's str.rfind, 1-based; 0 when ch does not occur
RFind(p, ch) ==
    IF \E i \in 1..Len(p) : p[i] = ch
    THEN CHOOSE i \in 1..Len(p) : p[i] = ch /\ \A j \in (i+1)..Len(p) : p[j] # ch
    ELSE 0

----------------------------------------------------------------------------
(* Program constants and input domains *)

max_chars_default == 80000    \* default of trim_srt's max_chars

\* A credential as os.getenv returns it: None (absent), "" (empty) or a value
KeyAbsent == [present |-> FALSE, value |-> ""]
KeyEmpty == [present |-> TRUE, value |-> ""]
KeySet == [present |-> TRUE, value |-> "k"]
Keys == {KeyAbsent, KeyEmpty, KeySet}

\* Paths run is started with: "c.m" and "d/c"
VideoPaths == {<<"c", ".", "m">>, <<"d", "/", "c">>}

\* Paths handed to the output path derivation under study
PathChars == {"/", ".", "c", "m"}
Paths == SeqsUpTo(PathChars, MaxPathLen)

\* Transcripts and limits handed to trim_srt under study
SrtChars == {"a", "b"}
LongSrt == <<[c |-> "x", n |-> max_chars_default + 1]>>
Transcripts ==
    {Text(s) : s \in SeqsUpTo(SrtChars, MaxLen)}
        \cup {LongSrt, <<[c |-> "a", n |-> max_chars_default]>>,
              <<[c |-> "a", n |-> max_chars_default], [c |-> "b", n |-> 1]>>}
Limits == ((0 - NegLimit)..MaxLimit) \cup {max_chars_default}

\* What the speech-to-text service may answer
Statuses == {200, 201, 204, 401, 500}
Bodies == {<< >>, Text(<<"1">>), LongSrt}

\* What the generation service may answer: "D", "\n", U+00E9, and a lone
\* surrogate U+D800 (which UTF-8 cannot encode)
DescChars == {68, 10, 233, 55296}
Descriptions == SeqsUpTo(DescChars, MaxDescLen)

NoResponse == [status |-> 0, text |-> << >>]
NoMessage == [received |-> FALSE, text |-> << >>]
NoError == [kind |-> "none", status |-> 0, body |-> << >>]
RaisedError(kind) == [kind |-> kind, status |-> 0, body |-> << >>]

NoFile == [exists |-> FALSE, bytes |-> << >>]
OldFile == [exists |-> TRUE, bytes |-> <<79>>]
File(bytes) == [exists |-> TRUE, bytes |-> bytes]

----------------------------------------------------------------------------
(* Config loader, src/main.py 21-26 *)

\* Python truth value of a credential: None and "" are falsy
Truthy(key) == key.present /\ key.value # ""

ConfigMissing_OnlyAbsent(e, a) == ~e.present \/ ~a.present

ConfigMissing(e, a) == ~Truthy(e) \/ ~Truthy(a)

----------------------------------------------------------------------------
(* Transcriber, src/main.py 226-256 *)

\* state of a handle after its with block is left, normally or by an exception
WithExit_LeakOnRaise(raised) == raised

WithExit(raised) == FALSE

TranscribeFails_ServerErrorsOnly(status) == status >= 400

TranscribeFails_Never(status) == FALSE

TranscribeFails(status) == status # 200

TranscriptionException(resp) ==
    [kind |-> "Exception", status |-> resp.status, body |-> resp.text]

----------------------------------------------------------------------------
(* Trimmer, src/main.py 261-266 *)

trim_srt_OffByOne(srt, max_chars) ==
    IF TextLen(srt) > max_chars THEN SlicePrefix(srt, max_chars + 1) ELSE srt

trim_srt(srt, max_chars) ==
    IF TextLen(srt) > max_chars THEN SlicePrefix(srt, max_chars) ELSE srt

----------------------------------------------------------------------------
(* Output writer, src/main.py 304-316 *)

\* os.path.splitext(p)[0] as posixpath computes it: the extension starts at
\* the last dot of the last component, leading dots of the component apart
splitext_base_AnyDot(p) ==
    LET dotIndex == RFind(p, ".")
    IN  IF dotIndex > 0 THEN SubSeq(p, 1, dotIndex - 1) ELSE p

splitext_base(p) ==
    LET sepIndex == RFind(p, "/")
        dotIndex == RFind(p, ".")
    IN  IF /\ dotIndex > sepIndex
           /\ \E i \in (sepIndex + 1)..(dotIndex - 1) : p[i] # "."
        THEN SubSeq(p, 1, dotIndex - 1)
        ELSE p

Suffix == <<"_", "d", "e", "s", "c", "r", "i", "p", "t", "i", "o", "n",
            ".", "t", "x", "t">>

OutputPathOf(p) == splitext_base(p) \o Suffix

OutPaths == {OutputPathOf(p) : p \in VideoPaths}

\* what the text layer of open(..., "w", encoding="utf-8") does to the text
LineSep == <<10>>

RECURSIVE TranslateNewlines(_)
TranslateNewlines(text) ==
    IF text = << >> THEN << >>
    ELSE (IF Head(text) = 10 THEN LineSep ELSE <<Head(text)>>)
         \o TranslateNewlines(Tail(text))

IsSurrogate(cp) == cp >= 55296 /\ cp <= 57343

Encodable(text) == \A i \in 1..Len(text) : ~IsSurrogate(text[i])

Utf8Char(cp) ==
    IF cp < 128 THEN <<cp>>
    ELSE IF cp < 2048 THEN <<192 + (cp \div 64), 128 + (cp % 64)>>
    ELSE <<224 + (cp \div 4096), 128 + ((cp \div 64) % 64), 128 + (cp % 64)>>

RECURSIVE Utf8Encode(_)
Utf8Encode(text) ==
    IF text = << >> THEN << >>
    ELSE Utf8Char(Head(text)) \o Utf8Encode(Tail(text))

\* the file as open(output_path, "w") leaves it: created or truncated
FileAfterOpen_Append(old) == IF old.exists THEN old ELSE File(<< >>)

FileAfterOpen(old) == File(<< >>)

\* the file after f.write(text) and the close that flushes it
FileAfterWrite(cur, text) ==
    File(cur.bytes \o Utf8Encode(TranslateNewlines(text)))

----------------------------------------------------------------------------
(* Pipeline driver, src/main.py 321-358 *)

\* the position run moves to when the step at position p returns normally
run_next_SkipSave(p) ==
    CASE p = "config" -> "validate"
      [] p = "validate" -> "transcribe_open"
      [] p = "transcribe_open" -> "transcribe_post"
      [] p = "transcribe_post" -> "transcribe_check"
      [] p = "transcribe_check" -> "trim"
      [] p = "trim" -> "generate"
      [] p = "generate" -> "report"
      [] p = "save_open" -> "save_write"
      [] p = "save_write" -> "report"
      [] p = "report" -> "done"

run_next(p) ==
    CASE p = "config" -> "validate"
      [] p = "validate" -> "transcribe_open"
      [] p = "transcribe_open" -> "transcribe_post"
      [] p = "transcribe_post" -> "transcribe_check"
      [] p = "transcribe_check" -> "trim"
      [] p = "trim" -> "generate"
      [] p = "generate" -> "save_open"
      [] p = "save_open" -> "save_write"
      [] p = "save_write" -> "report"
      [] p = "report" -> "done"

\* the stage that starts when the process arrives at position p
StageStarted(p) ==
    CASE p = "validate" -> <<"Validate">>
      [] p = "transcribe_open" -> <<"Transcribe">>
      [] p = "trim" -> <<"Trim">>
      [] p = "generate" -> <<"Generate">>
      [] p = "save_open" -> <<"Save">>
      [] p = "report" -> <<"Report">>
      [] p = "done" -> <<"Done">>
      [] OTHER -> << >>

\* the step at pc returns normally
Advance ==
    /\ pc' = run_next(pc)
    /\ stages' = stages \o StageStarted(run_next(pc))
    /\ UNCHANGED <<failed_at, exit_status, error>>

\* sys.exit(1) after a printed diagnostic
ExitOne(stage) ==
    /\ pc' = "exit"
    /\ failed_at' = stage
    /\ exit_status' = 1
    /\ UNCHANGED <<stages, error>>

\* an exception nothing catches: traceback, exit status 1
Raise(stage, exc) ==
    /\ pc' = "exit"
    /\ failed_at' = stage
    /\ exit_status' = 1
    /\ error' = exc
    /\ UNCHANGED stages

\* not os.path.exists(video_path)
PathMissing_Ignored(exists) == FALSE

PathMissing(exists) == ~exists

inputs == <<elevenlabs_key, anthropic_key, video_path, video_exists>>

LoadConfig ==
    /\ pc = "config"
    /\ IF ConfigMissing(elevenlabs_key, anthropic_key)
       THEN ExitOne("Config")
       ELSE Advance
    /\ UNCHANGED <<inputs, fs, video_handle, output_handle, video_opened,
                   stt_calls, gen_calls, response, message, srt_content, description,
                   output_path, printed, trimVars>>

Validate ==
    /\ pc = "validate"
    /\ IF PathMissing(video_exists)
       THEN ExitOne("Validate")
       ELSE Advance
    /\ UNCHANGED <<inputs, fs, video_handle, output_handle, video_opened,
                   stt_calls, gen_calls, response, message, srt_content, description,
                   output_path, printed, trimVars>>

\* with open(video_path, "rb"): the open succeeds, which takes a file that
\* is there, or raises
OpenVideo ==
    /\ pc = "transcribe_open"
    /\ \E ok \in {video_exists, FALSE} :
         IF ok
         THEN /\ video_handle' = TRUE
              /\ video_opened' = TRUE
              /\ Advance
         ELSE /\ Raise("Transcribe", RaisedError("OSError"))
              /\ UNCHANGED <<video_handle, video_opened>>
    /\ UNCHANGED <<inputs, message, fs, output_handle, stt_calls, gen_calls, response,
                   srt_content, description, output_path, printed, trimVars>>

\* requests.post inside the with block: the service answers, or the
\* transport raises; either way the with block is left
PostVideo ==
    /\ pc = "transcribe_post"
    /\ stt_calls' = stt_calls + 1
    /\ \/ \E st \in Statuses, body \in Bodies :
            /\ response' = [status |-> st, text |-> body]
            /\ video_handle' = WithExit(FALSE)
            /\ Advance
       \/ /\ video_handle' = WithExit(TRUE)
          /\ Raise("Transcribe", RaisedError("RequestException"))
          /\ UNCHANGED response
    /\ UNCHANGED <<inputs, fs, output_handle, video_opened, gen_calls, message,
                   srt_content, description, output_path, printed, trimVars>>

CheckResponse ==
    /\ pc = "transcribe_check"
    /\ IF TranscribeFails(response.status)
       THEN /\ Raise("Transcribe", TranscriptionException(response))
            /\ UNCHANGED srt_content
       ELSE /\ srt_content' = response.text
            /\ Advance
    /\ UNCHANGED <<inputs, fs, video_handle, output_handle, video_opened,
                   stt_calls, gen_calls, response, message, description, output_path,
                   printed, trimVars>>

Trim ==
    /\ pc = "trim"
    /\ srt_content' = trim_srt(srt_content, max_chars_default)
    /\ Advance
    /\ UNCHANGED <<inputs, fs, video_handle, output_handle, video_opened,
                   stt_calls, gen_calls, response, message, description, output_path,
                   printed, trimVars>>

\* client.messages.create and message.content[0].text: a text comes back,
\* or the client raises, or the answer holds no text block
Generate ==
    /\ pc = "generate"
    /\ gen_calls' = gen_calls + 1
    /\ \/ \E d \in Descriptions :
            /\ message' = [received |-> TRUE, text |-> d]
            /\ description' = d
            /\ Advance
       \/ \E kind \in {"APIError", "IndexError"} :
            /\ Raise("Generate", RaisedError(kind))
            /\ UNCHANGED <<message, description>>
    /\ UNCHANGED <<inputs, fs, video_handle, output_handle, video_opened,
                   stt_calls, response, srt_content, output_path, printed,
                   trimVars>>

\* with open(output_path, "w", encoding="utf-8"): the open succeeds, creating
\* or truncating the file, or raises
OpenOutput ==
    /\ pc = "save_open"
    /\ output_path' = OutputPathOf(video_path)
    /\ \E ok \in BOOLEAN :
         IF ok
         THEN /\ output_handle' = TRUE
              /\ fs' = [fs EXCEPT ![output_path'] = FileAfterOpen(@)]
              /\ Advance
         ELSE /\ Raise("Save", RaisedError("OSError"))
              /\ UNCHANGED <<output_handle, fs>>
    /\ UNCHANGED <<inputs, video_handle, video_opened, stt_calls, gen_calls,
                   response, message, srt_content, description, printed, trimVars>>

\* f.write(description) and the end of the with block: all of the text is
\* written, or the write raises (text that cannot be encoded, device error)
\* leaving what had been written
WriteOutput ==
    /\ pc = "save_write"
    /\ \/ /\ Encodable(description)
          /\ fs' = [fs EXCEPT ![output_path] = FileAfterWrite(@, description)]
          /\ output_handle' = WithExit(FALSE)
          /\ Advance
       \/ /\ ~Encodable(description)
          /\ output_handle' = WithExit(TRUE)
          /\ Raise("Save", RaisedError("UnicodeEncodeError"))
          /\ UNCHANGED fs
       \/ \E k \in 0..Len(description) :
            /\ Encodable(SubSeq(description, 1, k))
            /\ fs' = [fs EXCEPT ![output_path] =
                         FileAfterWrite(@, SubSeq(description, 1, k))]
            /\ output_handle' = WithExit(TRUE)
            /\ Raise("Save", RaisedError("OSError"))
    /\ UNCHANGED <<inputs, video_handle, video_opened, stt_calls, gen_calls,
                   response, message, srt_content, description, output_path, printed,
                   trimVars>>

\* the final prints of run, then run returns and the process ends normally
Report ==
    /\ pc = "report"
    /\ printed' = [shown |-> TRUE, text |-> description]
    /\ pc' = run_next(pc)
    /\ stages' = stages \o StageStarted(run_next(pc))
    /\ exit_status' = 0
    /\ UNCHANGED <<failed_at, error>>
    /\ UNCHANGED <<inputs, fs, video_handle, output_handle, video_opened,
                   stt_calls, gen_calls, response, message, srt_content, description,
                   output_path, trimVars>>

NothingPrinted == [shown |-> FALSE, text |-> << >>]

\* the process before its first statement: nothing opened, called or printed
Fresh ==
    /\ video_handle = FALSE
    /\ output_handle = FALSE
    /\ video_opened = FALSE
    /\ stt_calls = 0
    /\ gen_calls = 0
    /\ response = NoResponse
    /\ message = NoMessage
    /\ error = NoError
    /\ failed_at = "none"
    /\ srt_content = << >>
    /\ description = << >>
    /\ output_path = << >>
    /\ printed = NothingPrinted
    /\ exit_status = -1
    /\ stages = << >>

NoTrimCall ==
    /\ arg_srt = << >>
    /\ arg_max = 0
    /\ res_once = << >>
    /\ res_twice = << >>

Init ==
    /\ pc = "config"
    /\ elevenlabs_key \in Keys
    /\ anthropic_key \in Keys
    /\ video_path \in VideoPaths
    /\ video_exists \in BOOLEAN
    /\ fs \in [OutPaths -> {NoFile, OldFile}]
    /\ Fresh
    /\ NoTrimCall

Next ==
    \/ LoadConfig
    \/ Validate
    \/ OpenVideo
    \/ PostVideo
    \/ CheckResponse
    \/ Trim
    \/ Generate
    \/ OpenOutput
    \/ WriteOutput
    \/ Report

Spec == Init /\ [][Next]_vars

----------------------------------------------------------------------------
(* trim_srt under study: called on a transcript and a limit, then called     *)
(* again on its own result with the same limit                               *)

TrimOnce ==
    /\ pc = "trim_in"
    /\ res_once' = trim_srt(arg_srt, arg_max)
    /\ pc' = "trim_once"
    /\ UNCHANGED <<inputs, fs, video_handle, output_handle, video_opened,
                   stt_calls, gen_calls, response, message, error, failed_at,
                   srt_content, description, output_path, printed,
                   exit_status, stages, arg_srt, arg_max, res_twice>>

TrimTwice ==
    /\ pc = "trim_once"
    /\ res_twice' = trim_srt(res_once, arg_max)
    /\ pc' = "trim_twice"
    /\ UNCHANGED <<inputs, fs, video_handle, output_handle, video_opened,
                   stt_calls, gen_calls, response, message, error, failed_at,
                   srt_content, description, output_path, printed,
                   exit_status, stages, arg_srt, arg_max, res_once>>

InitTrim ==
    /\ pc = "trim_in"
    /\ arg_srt \in Transcripts
    /\ arg_max \in Limits
    /\ res_once = << >>
    /\ res_twice = << >>
    /\ elevenlabs_key = KeySet
    /\ anthropic_key = KeySet
    /\ video_path = << >>
    /\ video_exists = FALSE
    /\ fs = [p \in OutPaths |-> NoFile]
    /\ Fresh

NextTrim == TrimOnce \/ TrimTwice

SpecTrim == InitTrim /\ [][NextTrim]_vars

----------------------------------------------------------------------------
(* The output path derivation of save_output under study, src/main.py       *)
(* 309-310, on every path of the alphabet                                    *)

DerivePath ==
    /\ pc = "path_in"
    /\ output_path' = OutputPathOf(video_path)
    /\ pc' = "path_out"
    /\ UNCHANGED <<inputs, fs, video_handle, output_handle, video_opened,
                   stt_calls, gen_calls, response, message, error, failed_at,
                   srt_content, description, printed, exit_status, stages,
                   trimVars>>

InitPath ==
    /\ pc = "path_in"
    /\ video_path \in Paths
    /\ elevenlabs_key = KeySet
    /\ anthropic_key = KeySet
    /\ video_exists = FALSE
    /\ fs = [p \in OutPaths |-> NoFile]
    /\ Fresh
    /\ NoTrimCall

NextPath == DerivePath

SpecPath == InitPath /\ [][NextPath]_vars

----------------------------------------------------------------------------
(* Vocabulary of the properties *)

Last(s) == s[Len(s)]

IsPrefix(s, t) == Len(s) <= Len(t) /\ SubSeq(t, 1, Len(s)) = s

StageOrder ==
    <<"Validate", "Transcribe", "Trim", "Generate", "Save", "Report", "Done">>

Responded == response # NoResponse

\* transcribe_video_to_srt is over: it returned or it raised
TranscribeOver ==
    Responded /\ pc \notin {"transcribe_post", "transcribe_check"}

TranscriptionRaised ==
    pc = "exit" /\ failed_at = "Transcribe" /\ error.kind = "Exception"

\* HTTP's class of success status codes, 2xx
IsSuccessStatus(st) == st \in 200..299

\* a credential that is absent or empty
KeyMissing(key) == key = KeyAbsent \/ key = KeyEmpty

\* the i-th character of a string in run-length form, 1 <= i <= len(t)
RECURSIVE CharAt(_, _)
CharAt(t, i) ==
    IF i <= Head(t).n THEN Head(t).c ELSE CharAt(Tail(t), i - Head(t).n)

\* r is exactly the first n characters of t
IsFirstChars(r, t, n) ==
    /\ TextLen(r) = n
    /\ n <= TextLen(t)
    /\ \A i \in 1..n : CharAt(r, i) = CharAt(t, i)

\* UTF-8 decoding, of sequences of up to three bytes
RECURSIVE Utf8Decode(_)
Utf8Decode(bytes) ==
    IF bytes = << >> THEN << >>
    ELSE IF bytes[1] < 128
         THEN <<bytes[1]>> \o Utf8Decode(Tail(bytes))
    ELSE IF bytes[1] < 224
         THEN <<(bytes[1] - 192) * 64 + (bytes[2] - 128)>>
              \o Utf8Decode(SubSeq(bytes, 3, Len(bytes)))
    ELSE <<(bytes[1] - 224) * 4096 + (bytes[2] - 128) * 64 + (bytes[3] - 128)>>
         \o Utf8Decode(SubSeq(bytes, 4, Len(bytes)))

\* where the description of each video run is started with belongs
ExpectedOutputPath(p) ==
    IF p = <<"c", ".", "m">>
    THEN <<"c">> \o Suffix
    ELSE <<"d", "/", "c">> \o Suffix

\* the directory part of a path: all up to and including its last separator
DirPart(p) == SubSeq(p, 1, RFind(p, "/"))

\* the last component of a path
LastComponent(p) == SubSeq(p, RFind(p, "/") + 1, Len(p))

\* extensions: a dot followed by letters
Extensions == {<<".", "m">>, <<".", "c">>, <<".", "m", "c">>}

IsExtension(e) ==
    /\ Len(e) >= 1
    /\ e[1] = "."
    /\ \A i \in 2..Len(e) : e[i] \notin {".", "/"}

\* a component that has a name: some character of it is not a dot
HasName(c) == \E i \in 1..Len(c) : c[i] # "."

----------------------------------------------------------------------------
(* C1: whenever the speech-to-text service has answered with a status other *)
(* than 200, the generation service has received no call, the Save stage    *)
(* has not started and no output handle is open; and once the transcriber   *)
(* is over the run has ended with the raised transcription failure.         *)
C1_NoGenerationAfterFailedTranscription ==
    (Responded /\ response.status # 200) =>
        /\ gen_calls = 0
        /\ ~message.received
        /\ \A i \in 1..Len(stages) : stages[i] \notin {"Generate", "Save"}
        /\ ~output_handle
        /\ output_path = << >>
        /\ TranscribeOver => TranscriptionRaised

C1_Witness ==
    /\ Responded
    /\ response.status = 500
    /\ TranscriptionRaised
    /\ gen_calls = 0

(* C2: if either credential is absent or empty, then once the config check  *)
(* has run the process has exited with status 1 at the config check, the    *)
(* video was never opened, no stage of run started and neither service      *)
(* received a call.                                                          *)
C2_MissingCredentialExitsFirst ==
    ((KeyMissing(elevenlabs_key) \/ KeyMissing(anthropic_key)) /\ pc # "config") =>
        /\ pc = "exit"
        /\ exit_status = 1
        /\ failed_at = "Config"
        /\ ~video_opened
        /\ ~video_handle
        /\ stt_calls = 0
        /\ gen_calls = 0
        /\ stages = << >>

C2_Witness ==
    /\ pc = "exit"
    /\ failed_at = "Config"
    /\ elevenlabs_key = KeySet
    /\ anthropic_key = KeyEmpty
    /\ video_exists

(* C3: if the video path given to run does not exist, then once Validate    *)
(* has run the process has exited with status 1 in Validate, neither        *)
(* service received a call, the video was not opened and the output writer  *)
(* never started.                                                            *)
C3_MissingVideoExitsInValidate ==
    (~video_exists /\ stages # << >> /\ pc # "validate") =>
        /\ pc = "exit"
        /\ exit_status = 1
        /\ failed_at = "Validate"
        /\ stages = <<"Validate">>
        /\ stt_calls = 0
        /\ gen_calls = 0
        /\ ~video_opened
        /\ ~output_handle
        /\ output_path = << >>

C3_Witness ==
    /\ ~video_exists
    /\ pc = "exit"
    /\ failed_at = "Validate"
    /\ fs[ExpectedOutputPath(video_path)] = OldFile

(* C4: when a run reaches Done, the file at the output path derived from    *)
(* the video path exists and decodes, as UTF-8, to exactly the text the     *)
(* generation service returned, and that same text is what the driver       *)
(* printed as the final description.                                        *)
C4_OutputFileHoldsDescription ==
    pc = "done" =>
        /\ message.received
        /\ fs[ExpectedOutputPath(video_path)].exists
        /\ Utf8Decode(fs[ExpectedOutputPath(video_path)].bytes) = message.text
        /\ printed.shown
        /\ printed.text = message.text

C4_Witness ==
    /\ pc = "done"
    /\ response.text = LongSrt
    /\ TextLen(srt_content) = max_chars_default
    /\ message.text = <<233, 10>>


(* C5, as stated: for every transcript and every limit, trim_srt returns    *)
(* the transcript unchanged when its length is at most the limit, and       *)
(* otherwise exactly its first max_chars characters, a result of length     *)
(* max_chars.                                                                *)
C5_TrimAgreesForEveryLimit ==
    pc \in {"trim_once", "trim_twice"} =>
        /\ TextLen(arg_srt) <= arg_max => res_once = arg_srt
        /\ TextLen(arg_srt) > arg_max =>
             /\ TextLen(res_once) = arg_max
             /\ IsFirstChars(res_once, arg_srt, arg_max)

(* C5, amended: the same for every transcript and every limit that is not   *)
(* negative.                                                                 *)
C5_TrimAgreesForNonNegativeLimit ==
    (pc \in {"trim_once", "trim_twice"} /\ arg_max >= 0) =>
        /\ TextLen(arg_srt) <= arg_max => res_once = arg_srt
        /\ TextLen(arg_srt) > arg_max =>
             /\ TextLen(res_once) = arg_max
             /\ IsFirstChars(res_once, arg_srt, arg_max)

C5_Witness ==
    /\ pc = "trim_once"
    /\ arg_srt = Text(<<"a", "b", "a">>)
    /\ arg_max = 2
    /\ res_once = Text(<<"a", "b">>)

(* C6: trim_srt is idempotent for every transcript and every limit:         *)
(* trimming the result of a trim again, with the same limit, returns it     *)
(* unchanged.                                                                *)
C6_TrimIdempotent ==
    pc = "trim_twice" => res_twice = res_once

(* C7: the output path lies in the directory of the video path.  When the  *)
(* last component of the video path is a name followed by an extension (a   *)
(* dot and then characters that are neither dots nor separators), the       *)
(* output path is the video path without that extension, followed by        *)
(* _description.txt, and it is the same for every extension put in its      *)
(* place; when the last component has no extension, the output path is the  *)
(* video path followed by _description.txt.                                  *)
C7_OutputPathDerivation ==
    pc = "path_out" =>
        LET dir == DirPart(video_path)
            comp == LastComponent(video_path)
            Cuts == {k \in 1..Len(comp) :
                       /\ HasName(SubSeq(comp, 1, k - 1))
                       /\ IsExtension(SubSeq(comp, k, Len(comp)))}
        IN  /\ DirPart(output_path) = dir
            /\ \A k \in Cuts :
                 /\ output_path = dir \o SubSeq(comp, 1, k - 1) \o Suffix
                 /\ \A e \in Extensions :
                      OutputPathOf(dir \o SubSeq(comp, 1, k - 1) \o e) = output_path
            /\ Cuts = {} => output_path = video_path \o Suffix

C7_Witness ==
    /\ pc = "path_out"
    /\ video_path = <<".", "/", "c", ".", "m">>
    /\ output_path = <<".", "/", "c">> \o Suffix

(* C8, as stated: once the transcriber is over, it has returned the         *)
(* response body verbatim if the status was a success status code, and      *)
(* otherwise has raised an error carrying the status code and the body; the *)
(* service was called once.                                                  *)
C8_TranscribeOutcomeBySuccessClass ==
    TranscribeOver =>
        /\ stt_calls = 1
        /\ IsSuccessStatus(response.status) =>
             /\ ~TranscriptionRaised
             /\ pc = "trim" => srt_content = response.text
        /\ ~IsSuccessStatus(response.status) =>
             /\ TranscriptionRaised
             /\ error.status = response.status
             /\ error.body = response.text

(* C8, amended: the same with status 200 as the only success status: the    *)
(* body is returned verbatim exactly when the status is 200, and every      *)
(* other status, the other 2xx codes included, raises the error carrying    *)
(* the status code and the body.                                             *)
C8_TranscribeOutcomeBy200 ==
    TranscribeOver =>
        /\ stt_calls = 1
        /\ response.status = 200 =>
             /\ ~TranscriptionRaised
             /\ pc = "trim" => srt_content = response.text
        /\ response.status # 200 =>
             /\ TranscriptionRaised
             /\ error.status = response.status
             /\ error.body = response.text

C8_Witness ==
    /\ TranscribeOver
    /\ response = [status |-> 204, text |-> Text(<<"1">>)]
    /\ TranscriptionRaised
    /\ error.status = 204
    /\ error.body = Text(<<"1">>)

(* C9: the stages started so far are always an initial part of Validate,    *)
(* Transcribe, Trim, Generate, Save, Report, Done, so each runs at most     *)
(* once and only after its predecessor; Done is reached only with all of    *)
(* them run and no error; and a process that failed has ended, in the stage *)
(* that was the last to start, with Done never reached.                     *)
C9_StagesStrictlySequential ==
    /\ IsPrefix(stages, StageOrder)
    /\ (pc = "done") = (stages = StageOrder)
    /\ pc = "done" => (error = NoError /\ failed_at = "none" /\ exit_status = 0)
    /\ failed_at # "none" =>
         /\ pc = "exit"
         /\ exit_status = 1
         /\ failed_at \in {"Config", "Validate", "Transcribe", "Generate", "Save"}
         /\ IF failed_at = "Config"
            THEN stages = << >>
            ELSE stages # << >> /\ Last(stages) = failed_at
    /\ pc = "exit" => failed_at # "none"

C9_Witness ==
    /\ pc = "exit"
    /\ failed_at = "Save"
    /\ stages = <<"Validate", "Transcribe", "Trim", "Generate", "Save">>
    /\ gen_calls = 1
    /\ stt_calls = 1

(* C10: the two handles are never open together; the video handle is open   *)
(* only while the upload request is made and the output handle only while   *)
(* the description is written; and in every terminal state, Done or         *)
(* failure, neither is open.                                                 *)
C10_HandlesReleased ==
    /\ ~(video_handle /\ output_handle)
    /\ video_handle => pc = "transcribe_post"
    /\ output_handle => pc = "save_write"
    /\ pc \in {"exit", "done"} => (~video_handle /\ ~output_handle)

C10_Witness ==
    /\ pc = "exit"
    /\ video_opened
    /\ error.kind = "RequestException"
    /\ ~video_handle

====
